---- MODULE Spec2Model ----
(***************************************************************************)
(* SPIFlash high-level analyzer (SPIFlashAnalyzer.py).                     *)
(*                                                                         *)
(* decode(frame) is called once per captured clock edge with a 16-bit      *)
(* sample (bit 15 = chip select, bits 0..3 = data lanes) and a timestamp.  *)
(* It finds burst boundaries from the timing gap, assembles bytes from one *)
(* or four lanes, and classifies the finished burst when the next one      *)
(* starts.                                                                 *)
(*                                                                         *)
(* Timestamps are integer ticks of one microsecond; the code's             *)
(* float(diff * 1_000_000_000) turns a difference of timestamps into       *)
(* nanoseconds, which is NanosPerTick per tick here.                       *)
(* Only frames of type "data" are modelled (the sample stream of the       *)
(* specification); the pass-through of other frame types (lines 177-179)   *)
(* is not part of the sample interface.                                    *)
(***************************************************************************)
EXTENDS Integers, Sequences, FiniteSets, TLC

VARIABLES
    self,        \* the fields of the SPIFlash object
    settings,    \* address_bytes, min_address, max_address, decode_level
    output,      \* what the last call of decode returned (NoFrame for None)
    frames,      \* the local list `frames` of the last call
    classified,  \* what the "disable" branch of the last call computed
    raised,      \* the last call ended with ValueError (bytearray.extend)
    sample,      \* the frame given to the last call
    began,       \* the time of the sample that began the burst being assembled,
                 \* self._continuous as it was then and, if it was set,
                 \* self._command as it was then
    toggle,      \* first byte of the last classified burst that began with
                 \* EN4B or EX4B (None before any)
    wire,        \* lane values of the chip-select-asserted samples of the
                 \* burst being sent (kept by the sender, not by the decoder)
    idle         \* number of chip-select-deasserted samples sent so far

vars == <<self, settings, output, frames, classified, raised, sample, began, toggle,
          wire, idle>>

----------------------------------------------------------------------------
(* Command tables, lines 5-52 *)

CONTINUE_COMMANDS == (107 :> 8) @@ (231 :> 2) @@ (235 :> 4)

DATA_COMMANDS ==
    (3 :> "Read") @@ (11 :> "Fast Read") @@ (91 :> "Read SFDP") @@
    (107 :> "Quad-Output Fast Read") @@ (158 :> "Read JEDEC ID") @@
    (159 :> "Read JEDEC ID") @@ (231 :> "Quad Word Read") @@
    (235 :> "Quad Read") @@ (2 :> "Page Program") @@
    (50 :> "Quad Page Program") @@ (18 :> "4-byte PAGE PROGRAM") @@
    (19 :> "4-byte READ") @@ (52 :> "4-byte QUAD INPUT PAGE PROGRAM") @@
    (92 :> "4-byte BLOCK ERASE 32KB") @@ (216 :> "4-byte BLOCK ERASE 64KB") @@
    (32 :> "4-byte SECTOR ERASE 4KB") @@ (225 :> "4-byte WRITE DYB REGISTER") @@
    (227 :> "4-byte PROGRAM PPB")

EN4B == 183
EX4B == 233

CONTROL_COMMANDS ==
    (1 :> "Write Status Register 1") @@ (6 :> "Write Enable") @@
    (4 :> "Write Disable") @@ (5 :> "Read Status Register") @@
    (53 :> "Read Status Register 2") @@ (90 :> "Read SFDP Mode") @@
    (117 :> "Program Suspend") @@ (171 :> "Release Power-down / Device ID") @@
    (EN4B :> "Enable 4 Byte Address") @@ (EX4B :> "Exit 4 Byte Address") @@
    (133 :> "Read Extended Read Parameters") @@ (192 :> "Set Read Parameters") @@
    (97 :> "Read Read Parameters")

decode_levels == {"Everything", "Only Data", "Only Errors", "Only Control"}

----------------------------------------------------------------------------
(* Python values *)

\* None, for the fields that hold a number or None
None == -1

\* self._miso_data / self._mosi_data: None or a bytearray
NoneBuffer == [is_none |-> TRUE, bytes |-> <<>>]
bytearray(b) == [is_none |-> FALSE, bytes |-> b]

\* `not buf` of Python: None or an empty bytearray
Falsy(buf) == buf.is_none \/ Len(buf.bytes) = 0

\* the return value None of decode
NoFrame == [type |-> "None"]

Min(a, b) == IF a < b THEN a ELSE b

\* A NumberSetting is a float that is never negative: the whole number n, or
\* some value strictly between n and n + 1.
Whole(n)      == [whole |-> n, fraction |-> FALSE]
Fractional(n) == [whole |-> n, fraction |-> TRUE]

\* int(x) truncates
int(x) == x.whole

\* x > 0
Positive(x) == x.whole > 0 \/ x.fraction

\* the truth value of x
Truthy(x) == x.whole # 0 \/ x.fraction

\* n > x and n < x, for an int n
Exceeds(n, x) == n > x.whole
Below(n, x) == n < x.whole \/ (n = x.whole /\ x.fraction)

HexLower == <<"0","1","2","3","4","5","6","7","8","9","a","b","c","d","e","f">>
HexUpper == <<"0","1","2","3","4","5","6","7","8","9","A","B","C","D","E","F">>

RECURSIVE HexStr(_, _)
HexStr(n, digits) ==
    IF n < 16 THEN digits[n + 1]
    ELSE HexStr(n \div 16, digits) \o digits[(n % 16) + 1]

RECURSIVE HexLen(_)
HexLen(n) == IF n < 16 THEN 1 ELSE 1 + HexLen(n \div 16)

RECURSIVE Zeros(_)
Zeros(k) == IF k <= 0 THEN "" ELSE "0" \o Zeros(k - 1)

\* "{:0<width>x}".format(n): zero padded to width, the sign counted in it
AddressFormat(width, n) ==
    IF n >= 0
    THEN Zeros(width - HexLen(n)) \o HexStr(n, HexLower)
    ELSE "-" \o Zeros(width - 1 - HexLen(-n)) \o HexStr(-n, HexLower)

\* ''.join(['0x', hex(command).upper()[2:]])
RawHex(command) == "0x" \o HexStr(command, HexUpper)

----------------------------------------------------------------------------
(* __init__, lines 80-104 *)

InitialThreshold == 2000000

NewSPIFlash(cfg) ==
    [ start_time         |-> None,
      address_bytes      |-> 3,
      address_format     |-> 2 * 3,
      min_address        |-> int(cfg.min_address),
      max_address        |-> IF Truthy(cfg.max_address) THEN int(cfg.max_address) ELSE None,
      miso_data          |-> NoneBuffer,
      mosi_data          |-> NoneBuffer,
      empty_result_count |-> 0,
      last_cs            |-> 1,
      last_time          |-> None,
      transaction        |-> 0,
      clock_count        |-> 0,
      mosi_out           |-> 0,
      miso_in            |-> 0,
      quad_data          |-> 0,
      quad_start         |-> None,
      continuous         |-> FALSE,
      dummy              |-> 0,
      fastest_cs         |-> InitialThreshold,
      command            |-> None ]

----------------------------------------------------------------------------
(* decode, lines 106-140: gap, adaptive threshold, burst start *)

NanosPerTick == 1000

FakeFrame(t, time) == [type |-> t, start_time |-> time, end_time |-> time, data |-> <<>>]

ResultFrame(mosi, miso) ==
    [type |-> "result", start_time |-> None, end_time |-> None,
     data |-> [mosi |-> <<mosi>>, miso |-> <<miso>>]]

\* cs = data >> 15
ChipSelect(data) == data \div 32768

\* A number of nanoseconds giga * 10^9 + nanos: the gap of the first sample,
\* fastest_cs * 1_000_000_000, does not fit the integers of the checker.
Giga == 1000000000
Nanoseconds(n) == [giga |-> n \div Giga, nanos |-> n % Giga]
Times4(g) ==
    [giga  |-> g.giga * 4 + g.nanos \div (Giga \div 4),
     nanos |-> (g.nanos % (Giga \div 4)) * 4]
Less(g, h) == g.giga < h.giga \/ (g.giga = h.giga /\ g.nanos < h.nanos)

\* lines 111-115: the gap since the last sample, in nanoseconds
Gap(s, time) ==
    IF s.last_time # None
    THEN Nanoseconds((time - s.last_time) * NanosPerTick)
    ELSE [giga |-> s.fastest_cs, nanos |-> 0]

\* Threshold following four times the latest gap, up or down
Threshold_Latest(s, time) ==
    LET d4 == Times4(Gap(s, time))
    IN  IF s.last_time = None THEN s.fastest_cs
        ELSE d4.giga * Giga + d4.nanos

\* line 117: min(diff * 4, self._fastest_cs)
Threshold(s, time) ==
    LET d4 == Times4(Gap(s, time))
    IN  IF Less(d4, Nanoseconds(s.fastest_cs))
        THEN d4.giga * Giga + d4.nanos
        ELSE s.fastest_cs

\* StartsBurst with a gap equal to the threshold starting a burst too
StartsBurst_AtThreshold(s, data, time) ==
    /\ ~Less(Gap(s, time), Nanoseconds(Threshold(s, time)))
    /\ ChipSelect(data) = 0

\* line 118
StartsBurst(s, data, time) ==
    /\ Less(Nanoseconds(Threshold(s, time)), Gap(s, time))
    /\ ChipSelect(data) = 0

\* StartFields without the pre-seeded edge counter of a continued burst
StartFields_NoSeed(s) ==
    IF ~s.continuous
    THEN [s EXCEPT !.clock_count = 0, !.command = 0, !.quad_start = None,
                   !.dummy = 0, !.mosi_out = 0, !.miso_in = 0]
    ELSE [s EXCEPT !.clock_count = 0]

\* StartFields leaving the quad switch and the dummy count of the last burst
StartFields_KeepQuad(s) ==
    IF ~s.continuous
    THEN [s EXCEPT !.clock_count = 0, !.command = 0, !.mosi_out = 0, !.miso_in = 0]
    ELSE [s EXCEPT !.clock_count = 8]

\* lines 126-138: what a burst start does to the assembler fields
StartFields(s) ==
    IF ~s.continuous
    THEN [s EXCEPT !.clock_count = 0, !.command = 0, !.quad_start = None,
                   !.dummy = 0, !.mosi_out = 0, !.miso_in = 0]
    ELSE [s EXCEPT !.clock_count = 8]

\* StartFrames ending the open burst at the current sample's time
StartFrames_EndsNow(s, time) ==
    (IF s.transaction > 0 THEN <<FakeFrame("disable", time)>> ELSE <<>>)
    \o <<FakeFrame("enable", time)>>
    \o (IF s.continuous THEN <<ResultFrame(s.command, 0)>> ELSE <<>>)

\* lines 119-122 and 135-138: the frames a burst start queues
StartFrames(s, time) ==
    (IF s.transaction > 0 THEN <<FakeFrame("disable", s.last_time)>> ELSE <<>>)
    \o <<FakeFrame("enable", time)>>
    \o (IF s.continuous THEN <<ResultFrame(s.command, 0)>> ELSE <<>>)

\* lines 110-140
Boundary(s, data, time) ==
    LET t1 == [s EXCEPT !.fastest_cs = Threshold(s, time)]
        t2 == IF StartsBurst(s, data, time)
              THEN StartFields([t1 EXCEPT !.transaction = @ + 1])
              ELSE t1
    IN  [s      |-> [t2 EXCEPT !.last_time = time],
         frames |-> IF StartsBurst(s, data, time) THEN StartFrames(s, time) ELSE <<>>]

----------------------------------------------------------------------------
(* decode, lines 145-176: the lane assembler *)

\* line 145
SingleLane(s) == s.quad_start = None \/ s.clock_count < s.quad_start

\* line 165: the byte flushed at this edge goes to the mosi list
QuadToMosi(s) == ~(15 < s.clock_count /\ s.clock_count <= 15 + s.dummy)

\* line 173
ModeByteContinues(quad_data) == (quad_data \div 16) % 16 = 10

\* AssembleSingle shifting the bits in LSB first
AssembleSingle_LsbFirst(s, data) ==
    LET k        == s.clock_count % 8
        weight   == IF k = 0 THEN 1 ELSE IF k = 1 THEN 2 ELSE IF k = 2 THEN 4
                    ELSE IF k = 3 THEN 8 ELSE IF k = 4 THEN 16 ELSE IF k = 5 THEN 32
                    ELSE IF k = 6 THEN 64 ELSE 128
        mosi_out == s.mosi_out + weight * (data % 2)
        miso_in  == s.miso_in + weight * ((data \div 2) % 2)
        first    == s.clock_count = 7
        cont     == first /\ mosi_out \in DOMAIN CONTINUE_COMMANDS
    IN  IF k = 7
        THEN [s |-> [s EXCEPT !.command    = IF first THEN mosi_out ELSE @,
                              !.quad_start = IF cont THEN 8 ELSE @,
                              !.dummy      = IF cont THEN CONTINUE_COMMANDS[mosi_out] ELSE @,
                              !.mosi_out   = 0,
                              !.miso_in    = 0],
              frames |-> <<ResultFrame(mosi_out, miso_in)>>]
        ELSE [s |-> [s EXCEPT !.mosi_out = mosi_out, !.miso_in = miso_in],
              frames |-> <<>>]

\* lines 146-160
AssembleSingle(s, data) ==
    LET mosi_out == s.mosi_out * 2 + (data % 2)
        miso_in  == s.miso_in * 2 + ((data \div 2) % 2)
        first    == s.clock_count = 7
        cont     == first /\ mosi_out \in DOMAIN CONTINUE_COMMANDS
    IN  IF s.clock_count % 8 = 7
        THEN [s |-> [s EXCEPT !.command    = IF first THEN mosi_out ELSE @,
                              !.quad_start = IF cont THEN 8 ELSE @,
                              !.dummy      = IF cont THEN CONTINUE_COMMANDS[mosi_out] ELSE @,
                              !.mosi_out   = 0,
                              !.miso_in    = 0],
              frames |-> <<ResultFrame(mosi_out, miso_in)>>]
        ELSE [s |-> [s EXCEPT !.mosi_out = mosi_out, !.miso_in = miso_in],
              frames |-> <<>>]

\* AssembleQuad writing the continuous-mode flag at every flush
AssembleQuad_EveryFlush(s, data) ==
    LET quad_data == s.quad_data * 16 + (data % 16)
    IN  IF s.clock_count % 2 = 1
        THEN [s |-> [s EXCEPT !.continuous =
                                  IF s.command \in DOMAIN CONTINUE_COMMANDS
                                  THEN ModeByteContinues(quad_data) ELSE @,
                              !.quad_data = 0],
              frames |-> <<IF QuadToMosi(s) THEN ResultFrame(quad_data, 0)
                                            ELSE ResultFrame(0, quad_data)>>]
        ELSE [s |-> [s EXCEPT !.quad_data = quad_data], frames |-> <<>>]

\* lines 162-174
AssembleQuad(s, data) ==
    LET quad_data == s.quad_data * 16 + (data % 16)
    IN  IF s.clock_count % 2 = 1
        THEN [s |-> [s EXCEPT !.continuous =
                                  IF s.command \in DOMAIN CONTINUE_COMMANDS
                                     /\ s.clock_count = 15
                                  THEN ModeByteContinues(quad_data) ELSE @,
                              !.quad_data = 0],
              frames |-> <<IF QuadToMosi(s) THEN ResultFrame(quad_data, 0)
                                            ELSE ResultFrame(0, quad_data)>>]
        ELSE [s |-> [s EXCEPT !.quad_data = quad_data], frames |-> <<>>]

\* lines 145-176
Assemble(s, data) ==
    LET a == IF SingleLane(s) THEN AssembleSingle(s, data) ELSE AssembleQuad(s, data)
    IN  [s |-> [a.s EXCEPT !.clock_count = @ + 1], frames |-> a.frames]

----------------------------------------------------------------------------
(* decode, lines 181-252: the frames of the call are worked off in order *)

\* what the call leaves in `classified` when no burst was classified
NotClassified == [done |-> FALSE]

\* lines 207-210: big-endian address from the bytes after the opcode
RECURSIVE ResolveAddress(_, _, _, _)
ResolveAddress(bytes, n, i, frame_address) ==
    IF i >= n THEN frame_address
    ELSE ResolveAddress(bytes, n, i + 1, frame_address * 256 + bytes[1 + i + 1])

\* lines 211-215: the address filter of the settings
AddressPasses(s, cfg, frame_address) ==
    /\ ~(Positive(cfg.min_address) /\ frame_address < s.min_address)
    /\ ~(Truthy(cfg.max_address) /\ Exceeds(frame_address, cfg.max_address))

\* lines 217-221
NonDataBytes(mnemonic) ==
    2 + (IF mnemonic = DATA_COMMANDS[11] THEN 1 ELSE 0)
      + (IF mnemonic = DATA_COMMANDS[235] THEN 2 ELSE 0)

\* line 222
NumDataBytes(s, cfg, mnemonic) ==
    Len(s.mosi_data.bytes) - int(cfg.address_bytes) - NonDataBytes(mnemonic)

\* Truncated asking for one byte more than the address
Truncated_OneMore(s) == Len(s.mosi_data.bytes) <= 1 + s.address_bytes

\* line 202
Truncated(s) == Len(s.mosi_data.bytes) < 1 + s.address_bytes

\* AddressBytesAfter that never leaves 4-byte mode
AddressBytesAfter_NoExit(s, command) ==
    IF command = EN4B THEN 4 ELSE s.address_bytes

\* lines 230-235: the address width after a control command
AddressBytesAfter(s, command) ==
    IF command = EN4B THEN 4
    ELSE IF command = EX4B THEN 3
    ELSE s.address_bytes

\* lines 198-236: frame_type and frame_data of the burst in the buffers
FrameOf(s, cfg) ==
    LET command == s.mosi_data.bytes[1]
    IN  IF command \in DOMAIN DATA_COMMANDS
        THEN IF Truncated(s)
             THEN [frame_type |-> "error", frame_data |-> [command |-> command]]
             ELSE LET mnemonic      == DATA_COMMANDS[command]
                      frame_address == ResolveAddress(s.mosi_data.bytes, s.address_bytes, 0, 0)
                      num           == NumDataBytes(s, cfg, mnemonic)
                  IN  IF ~AddressPasses(s, cfg, frame_address)
                      THEN [frame_type |-> "None", frame_data |-> [command |-> mnemonic]]
                      ELSE [frame_type |-> "data_command",
                            frame_data |->
                              [command     |-> mnemonic,
                               address     |-> AddressFormat(s.address_format, frame_address),
                               num_bytes   |-> num,
                               address_end |-> AddressFormat(s.address_format,
                                                             frame_address + num)]]
        ELSE [frame_type |-> "control_command",
              frame_data |-> [command |-> IF command \in DOMAIN CONTROL_COMMANDS
                                          THEN CONTROL_COMMANDS[command]
                                          ELSE RawHex(command)]]

\* lines 245-250: the record passes the configured decode level
LevelPasses(decode_level, frame_type) ==
    /\ ~(decode_level = "Only Data" /\ frame_type = "control_command")
    /\ ~(decode_level = "Only Errors" /\ frame_type # "error")
    /\ ~(decode_level = "Only Control" /\ frame_type # "control_command")

\* lines 237-242
AnalyzerFrame(frame_type, start_time, end_time, frame_data) ==
    [type |-> frame_type, start_time |-> start_time, end_time |-> end_time,
     data |-> frame_data]

\* OnDisable switching the address width only for a record that is returned
OnDisable_ShownOnly(acc, f, cfg) ==
    LET s == acc.s
    IN  IF Falsy(s.miso_data) \/ Falsy(s.mosi_data) THEN acc
        ELSE
        LET command   == s.mosi_data.bytes[1]
            fr        == FrameOf(s, cfg)
            our_frame == IF fr.frame_type # "None"
                         THEN AnalyzerFrame(fr.frame_type, s.start_time, f.end_time,
                                            fr.frame_data)
                         ELSE NoFrame
            shown     == LevelPasses(cfg.decode_level, fr.frame_type)
            width     == IF command \in DOMAIN DATA_COMMANDS \/ ~shown
                         THEN s.address_bytes
                         ELSE AddressBytesAfter(s, command)
        IN  [acc EXCEPT
               !.s = [s EXCEPT !.address_bytes  = width,
                               !.address_format = 2 * width,
                               !.miso_data      = NoneBuffer,
                               !.mosi_data      = NoneBuffer],
               !.output = IF shown THEN our_frame ELSE @,
               !.classified =
                   [done          |-> TRUE,
                    command       |-> command,
                    mosi          |-> s.mosi_data.bytes,
                    miso          |-> s.miso_data.bytes,
                    address_bytes |-> s.address_bytes,
                    frame_type    |-> fr.frame_type,
                    our_frame     |-> our_frame]]

\* lines 195-251: a "disable" frame
OnDisable(acc, f, cfg) ==
    LET s == acc.s
    IN  IF Falsy(s.miso_data) \/ Falsy(s.mosi_data) THEN acc
        ELSE
        LET command   == s.mosi_data.bytes[1]
            fr        == FrameOf(s, cfg)
            our_frame == IF fr.frame_type # "None"
                         THEN AnalyzerFrame(fr.frame_type, s.start_time, f.end_time,
                                            fr.frame_data)
                         ELSE NoFrame
            width     == IF command \in DOMAIN DATA_COMMANDS THEN s.address_bytes
                         ELSE AddressBytesAfter(s, command)
        IN  [acc EXCEPT
               !.s = [s EXCEPT !.address_bytes  = width,
                               !.address_format = 2 * width,
                               !.miso_data      = NoneBuffer,
                               !.mosi_data      = NoneBuffer],
               !.output = IF LevelPasses(cfg.decode_level, fr.frame_type)
                          THEN our_frame ELSE @,
               !.classified =
                   [done          |-> TRUE,
                    command       |-> command,
                    mosi          |-> s.mosi_data.bytes,
                    miso          |-> s.miso_data.bytes,
                    address_bytes |-> s.address_bytes,
                    frame_type    |-> fr.frame_type,
                    our_frame     |-> our_frame]]

\* lines 183-186: an "enable" frame
OnEnable(acc, f) ==
    [acc EXCEPT !.s = [acc.s EXCEPT !.start_time = f.start_time,
                                    !.miso_data  = bytearray(<<>>),
                                    !.mosi_data  = bytearray(<<>>)]]

\* bytearray.extend(values): ValueError unless every value is in range(0, 256)
Extendable(values) == \A i \in 1..Len(values) : values[i] \in 0..255

\* OnResult dropping a pair that has no buffer without counting it
OnResult_NoCount(acc, f) ==
    LET s == acc.s
    IN  IF s.miso_data.is_none \/ s.mosi_data.is_none
        THEN acc
        ELSE IF ~Extendable(f.data.miso)
        THEN [acc EXCEPT !.raised = TRUE]
        ELSE LET s1 == [s EXCEPT !.miso_data = bytearray(@.bytes \o f.data.miso)]
             IN  IF ~Extendable(f.data.mosi)
                 THEN [acc EXCEPT !.s = s1, !.raised = TRUE]
                 ELSE [acc EXCEPT !.s = [s1 EXCEPT !.mosi_data =
                                            bytearray(@.bytes \o f.data.mosi)]]

\* lines 187-194: a "result" frame
OnResult(acc, f) ==
    LET s == acc.s
    IN  IF s.miso_data.is_none \/ s.mosi_data.is_none
        THEN [acc EXCEPT !.s = [s EXCEPT !.empty_result_count = @ + 1]]
        ELSE IF ~Extendable(f.data.miso)
        THEN [acc EXCEPT !.raised = TRUE]
        ELSE LET s1 == [s EXCEPT !.miso_data = bytearray(@.bytes \o f.data.miso)]
             IN  IF ~Extendable(f.data.mosi)
                 THEN [acc EXCEPT !.s = s1, !.raised = TRUE]
                 ELSE [acc EXCEPT !.s = [s1 EXCEPT !.mosi_data =
                                            bytearray(@.bytes \o f.data.mosi)]]

\* lines 182-251: the loop over the frames; an exception ends it
RECURSIVE ProcessFrames(_, _, _)
ProcessFrames(acc, fs, cfg) ==
    IF fs = <<>> \/ acc.raised THEN acc
    ELSE LET f == Head(fs)
             nxt == IF f.type = "enable" THEN OnEnable(acc, f)
                    ELSE IF f.type = "result" THEN OnResult(acc, f)
                    ELSE IF f.type = "disable" THEN OnDisable(acc, f, cfg)
                    ELSE acc
         IN  ProcessFrames(nxt, Tail(fs), cfg)

\* DecodeCall without the early return of a chip-select-deasserted sample
DecodeCall_NoReturn(s, cfg, data, time) ==
    LET b  == Boundary(s, data, time)
        a  == Assemble(b.s, data)
        fs == b.frames \o a.frames
        r  == ProcessFrames([s |-> a.s, output |-> NoFrame,
                             classified |-> NotClassified, raised |-> FALSE],
                            fs, cfg)
    IN  [s |-> r.s, output |-> IF r.raised THEN NoFrame ELSE r.output,
         classified |-> r.classified, raised |-> r.raised, frames |-> fs]

\* decode(frame) for a frame of type "data", lines 106-252
DecodeCall(s, cfg, data, time) ==
    LET b == Boundary(s, data, time)
    IN  IF ChipSelect(data) = 1
        THEN [s |-> b.s, output |-> NoFrame, classified |-> NotClassified,
              raised |-> FALSE, frames |-> b.frames]
        ELSE LET a  == Assemble(b.s, data)
                 fs == b.frames \o a.frames
                 r  == ProcessFrames([s |-> a.s, output |-> NoFrame,
                                      classified |-> NotClassified, raised |-> FALSE],
                                     fs, cfg)
             IN  [s |-> r.s, output |-> IF r.raised THEN NoFrame ELSE r.output,
                  classified |-> r.classified, raised |-> r.raised, frames |-> fs]

----------------------------------------------------------------------------
(* The sample streams the decoder is driven with.                          *)
(* A burst is sent one sample per tick and the next burst begins at the    *)
(* next multiple of Period; its first eight host-out bits spell one of the *)
(* opcodes sent and every later group of eight one of the bytes sent.  The *)
(* seventh sample of a group may also drive lanes 1 and 3 (0xA).           *)

Period == 3000   \* ticks from one burst start to the next

Pow2(k) == IF k = 0 THEN 1 ELSE IF k = 1 THEN 2 ELSE IF k = 2 THEN 4
           ELSE IF k = 3 THEN 8 ELSE IF k = 4 THEN 16 ELSE IF k = 5 THEN 32
           ELSE IF k = 6 THEN 64 ELSE IF k = 7 THEN 128 ELSE 256

\* the host-out bits w[from+1 .. from+k] read MSB first
RECURSIVE MosiBits(_, _, _)
MosiBits(w, from, k) ==
    IF k = 0 THEN 0
    ELSE MosiBits(w, from, k - 1) * 2 + (w[from + k] % 2)

\* the times the next sample may carry
NextTimes(last, maxbursts) ==
    IF last = None THEN {Period}
    ELSE {last + 1} \cup
         {t \in {((last \div Period) + 1) * Period} : t <= maxbursts * Period}

AtPeriod(time) == time % Period = 0

\* the lane values the sender may put on the wire after w
NextLanes(w, env) ==
    LET p    == Len(w)
        from == (p \div 8) * 8
        k    == p % 8
        sent == MosiBits(w, from, k)
        cand == IF p < 8 THEN env.opcodes ELSE env.bytes
        bits == {b \in {0, 1} : \E c \in cand : c \div Pow2(7 - k) = sent * 2 + b}
    IN  bits \cup (IF k = 6 THEN {h + b : h \in env.high, b \in bits} ELSE {})

\* the samples the sender may send next
Samples(env) ==
    UNION { LET w == IF AtPeriod(t) \/ self.last_time = None THEN <<>> ELSE wire
            IN  {[data |-> l, time |-> t, wire |-> Append(w, l), idle |-> idle] :
                    l \in IF Len(w) < env.maxwire THEN NextLanes(w, env) ELSE {}}
                \cup
                {[data |-> 32768, time |-> t, wire |-> wire, idle |-> idle + 1] :
                    x \in IF idle < env.maxidle THEN {0} ELSE {}}
          : t \in NextTimes(self.last_time, env.maxbursts) }

\* the call began a burst: it queued an "enable" frame
Started(fs) == \E i \in 1..Len(fs) : fs[i].type = "enable"

NoBurst == [time |-> None, continuous |-> FALSE, command |-> None]

\* one call of decode; a call that raised ends the stream
Decode(smp) ==
    /\ ~raised
    /\ LET r == DecodeCall(self, settings, smp.data, smp.time)
       IN  /\ self' = r.s
           /\ output' = r.output
           /\ frames' = r.frames
           /\ classified' = IF r.classified.done
                            THEN r.classified @@ [began |-> began]
                            ELSE r.classified
           /\ raised' = r.raised
           /\ began' = IF Started(r.frames)
                       THEN [time |-> smp.time, continuous |-> self.continuous,
                             command |-> IF self.continuous THEN self.command ELSE None]
                       ELSE began
           /\ toggle' = IF r.classified.done /\ r.classified.command \in {EN4B, EX4B}
                        THEN r.classified.command
                        ELSE toggle
    /\ sample' = [data |-> smp.data, time |-> smp.time]
    /\ wire' = smp.wire
    /\ idle' = smp.idle
    /\ UNCHANGED settings

InitWith(configs) ==
    /\ settings \in configs
    /\ self = NewSPIFlash(settings)
    /\ output = NoFrame
    /\ frames = <<>>
    /\ classified = NotClassified
    /\ raised = FALSE
    /\ sample = [data |-> None, time |-> None]
    /\ began = NoBurst
    /\ toggle = None
    /\ wire = <<>>
    /\ idle = 0

Settings(address_bytes, min_address, max_address, decode_level) ==
    [address_bytes |-> address_bytes, min_address |-> min_address,
     max_address |-> max_address, decode_level |-> decode_level]

----------------------------------------------------------------------------
(* Spec: the lane assembler. Single-lane and quad bursts, bursts cut short  *)
(* at any sample, continuous read.                                          *)

MaxBursts == 3      \* burst starts offered in one stream
MaxWire   == 24     \* chip-select-asserted samples sent in one burst

Env ==
    [opcodes |-> {3, 107}, bytes |-> {0, 1, 128}, high |-> {10},
     maxbursts |-> MaxBursts, maxwire |-> MaxWire, maxidle |-> 0]

Configs == {Settings(Whole(3), Whole(0), Whole(0), "Everything")}

Init == InitWith(Configs)
Next == \E smp \in Samples(Env) : Decode(smp)
Spec == Init /\ [][Next]_vars

----------------------------------------------------------------------------
(* SpecIdle: streams with chip-select-deasserted samples, at a burst's      *)
(* pace or after a long gap, also before the first burst.                   *)

IdleBursts == 3     \* burst starts offered in one stream
IdleWire   == 16    \* chip-select-asserted samples sent in one burst
MaxIdle    == 1     \* chip-select-deasserted samples in one stream

EnvIdle ==
    [opcodes |-> {3, 107}, bytes |-> {0, 1}, high |-> {},
     maxbursts |-> IdleBursts, maxwire |-> IdleWire, maxidle |-> MaxIdle]

InitIdle == InitWith(Configs)
NextIdle == \E smp \in Samples(EnvIdle) : Decode(smp)
SpecIdle == InitIdle /\ [][NextIdle]_vars

----------------------------------------------------------------------------
(* SpecClassify: bursts long enough to carry an opcode, a 4-byte address    *)
(* and a payload byte, the two address-width opcodes, and settings with an  *)
(* address window and each decode level.                                    *)

ClassifyBursts == 4     \* burst starts offered in one stream
ClassifyWire   == 40    \* chip-select-asserted samples sent in one burst

EnvClassify ==
    [opcodes |-> {3, 11, 235, EN4B, EX4B}, bytes |-> {0, 1}, high |-> {},
     maxbursts |-> ClassifyBursts, maxwire |-> ClassifyWire, maxidle |-> 0]

ConfigsClassify ==
    { Settings(Whole(3), Whole(0), Whole(0), "Everything"),
      Settings(Whole(3), Fractional(256), Whole(65536), "Only Data"),
      Settings(Whole(4), Whole(256), Whole(0), "Only Errors"),
      Settings(Whole(3), Whole(0), Whole(65536), "Only Control") }

InitClassify == InitWith(ConfigsClassify)
NextClassify == \E smp \in Samples(EnvClassify) : Decode(smp)
SpecClassify == InitClassify /\ [][NextClassify]_vars

----------------------------------------------------------------------------
(* SpecLevels: the four decode levels over the same streams of Read bursts, *)
(* whole or truncated, and address-width bursts.                            *)

LevelBursts == 3     \* burst starts offered in one stream
LevelWire   == 32    \* chip-select-asserted samples sent in one burst

EnvLevels ==
    [opcodes |-> {3, EN4B, EX4B}, bytes |-> {0, 1}, high |-> {},
     maxbursts |-> LevelBursts, maxwire |-> LevelWire, maxidle |-> 0]

ConfigsLevels ==
    {Settings(Whole(3), Whole(0), Whole(0), level) : level \in decode_levels}

InitLevels == InitWith(ConfigsLevels)
NextLevels == \E smp \in Samples(EnvLevels) : Decode(smp)
SpecLevels == InitLevels /\ [][NextLevels]_vars

----------------------------------------------------------------------------
(* SpecGap: streams that are not paced in bursts. Every sample follows the  *)
(* last one after one of a few gaps, among them 0 (the same timestamp       *)
(* again), gaps at and just above four times the shortest gap, and a gap    *)
(* above the initial threshold. `wire` records every chip-select-asserted   *)
(* sample of the stream here.                                               *)

GapWire == 4     \* chip-select-asserted samples in one stream
GapIdle == 1     \* chip-select-deasserted samples in one stream

\* the gaps between two samples, in ticks
Gaps == {0, 1, 4, 5, Period}

SamplesGap ==
    UNION { {[data |-> 0, time |-> t, wire |-> Append(wire, 0), idle |-> idle] :
                x \in IF Len(wire) < GapWire THEN {0} ELSE {}}
            \cup
            {[data |-> 32768, time |-> t, wire |-> wire, idle |-> idle + 1] :
                x \in IF idle < GapIdle THEN {0} ELSE {}}
          : t \in IF self.last_time = None THEN {Period}
                  ELSE {self.last_time + g : g \in Gaps} }

InitGap == InitWith(Configs)
NextGap == \E smp \in SamplesGap : Decode(smp)
SpecGap == InitGap /\ [][NextGap]_vars

----------------------------------------------------------------------------
(* Properties of the lane assembler, under Spec *)

\* the bytes the host-out bits of w spell, eight bits to a byte, MSB first
BytesOnWire(w) == [i \in 1..(Len(w) \div 8) |-> MosiBits(w, 8 * (i - 1), 8)]

BurstOpen == ~self.miso_data.is_none /\ ~self.mosi_data.is_none

\* C7: single-lane round trip. In a burst that began with the continuous-mode
\* flag clear and whose first eight host-out bits are an opcode outside the
\* continuation table, the host-to-device sequence is exactly the bytes sent
\* so far, opcode first, each byte MSB first.
C7_SingleLaneRoundTrip ==
    (/\ began.time # None
     /\ ~began.continuous
     /\ Len(wire) >= 8
     /\ MosiBits(wire, 0, 8) \notin DOMAIN CONTINUE_COMMANDS)
    => (BurstOpen /\ self.mosi_data.bytes = BytesOnWire(wire))

C7_Witness ==
    /\ began.time # None /\ ~began.continuous
    /\ Len(wire) = 24
    /\ BurstOpen /\ self.mosi_data.bytes = <<3, 128, 1>>

\* C3, the state part: a burst that began with the continuous-mode flag set has
\* the inherited opcode as its first host-to-device byte (device-to-host 0)
\* without any opcode read from the wire, its edge counter began at 8 and every
\* two samples add a byte; when it ends it is classified under that opcode.
C3_Inherited ==
    /\ (began.time # None /\ began.continuous) =>
          /\ began.command \in DOMAIN CONTINUE_COMMANDS
          /\ BurstOpen
          /\ Len(self.mosi_data.bytes) >= 1
          /\ self.mosi_data.bytes[1] = began.command
          /\ self.miso_data.bytes[1] = 0
          /\ self.command = began.command
          /\ self.clock_count = 8 + Len(wire)
          /\ ~raised => Len(self.mosi_data.bytes) = 1 + Len(wire) \div 2
    /\ (classified.done /\ classified.began.continuous) =>
          /\ classified.command = classified.began.command
          /\ classified.frame_type \in {"error", "data_command", "None"}
          /\ classified.frame_type = "data_command" =>
                classified.our_frame.data.command = DATA_COMMANDS[classified.began.command]

\* C3, the step part: the mode byte flushed at edge 15 of a continuation
\* opcode's burst sets the flag when its upper nibble is 0xA; the flag then
\* stays until another edge-15 flush; a burst that starts with the flag set
\* starts from the inherited opcode with the edge counter at 8.
C3_Step ==
    LET start == Started(frames')
        edge15 == /\ ~start
                  /\ ChipSelect(sample'.data) = 0
                  /\ self.clock_count = 15
                  /\ ~SingleLane(self)
                  /\ self.command \in DOMAIN CONTINUE_COMMANDS
    IN  /\ (edge15 /\ self.quad_data % 16 = 10) => self'.continuous
        /\ (self.continuous /\ ~self'.continuous) => edge15
        /\ (start /\ self.continuous) =>
              /\ self'.mosi_data.bytes = <<self.command>>
              /\ self'.miso_data.bytes = <<0>>
              /\ self'.clock_count = 8 + 1
              /\ self'.command = self.command
              /\ ~SingleLane(self')

\* C3: continuous quad read
C3_ContinuousQuadRead == [](C3_Inherited) /\ [][C3_Step]_vars

C3_Witness ==
    /\ classified.done
    /\ classified.began.continuous
    /\ classified.began.command = 107
    /\ classified.frame_type = "data_command"
    /\ Len(classified.mosi) > 4

\* C9: while a burst is open the two accumulated sequences have the same
\* length, and that length does not decrease while the burst stays open.
C9_Step ==
    (BurstOpen /\ ~Started(frames') /\ ~self'.mosi_data.is_none) =>
        /\ Len(self'.mosi_data.bytes) >= Len(self.mosi_data.bytes)
        /\ Len(self'.miso_data.bytes) >= Len(self.miso_data.bytes)

C9_EqualLength ==
    BurstOpen => Len(self.mosi_data.bytes) = Len(self.miso_data.bytes)

C9_BufferLengths == [](C9_EqualLength) /\ [][C9_Step]_vars

----------------------------------------------------------------------------
(* Properties of the calls, under SpecIdle *)

\* the call queued a flushed byte pair
Flushed(fs) == \E i \in 1..Len(fs) : fs[i].type = "result"

\* C8: a call returns a record only if its sample starts a burst (so its chip
\* select is asserted); the record is the classification of the burst that
\* was open before the call, it starts at the time of the sample that began
\* that burst and ends at the time of the sample of the previous call.
C8_Step ==
    output' # NoFrame =>
        /\ StartsBurst(self, sample'.data, sample'.time)
        /\ ChipSelect(sample'.data) = 0
        /\ BurstOpen
        /\ classified'.done
        /\ output' = classified'.our_frame
        /\ classified'.mosi = self.mosi_data.bytes
        /\ classified'.miso = self.miso_data.bytes
        /\ output'.start_time = began.time
        /\ output'.end_time = sample.time

C8_OneRecordPerCall == [][C8_Step]_vars

C8_Witness ==
    /\ output # NoFrame
    /\ idle > 0
    /\ output.end_time > output.start_time + Len(classified.mosi) * 8

\* C10: a byte pair flushed while the buffers are unset is dropped and
\* counted, the buffers stay unset, nothing is returned and nothing is raised;
\* this happens only before the first burst start, and from the first burst
\* start on the buffers are set after every call.
C10_Step ==
    /\ (/\ Flushed(frames')
        /\ ~Started(frames')
        /\ (self.miso_data.is_none \/ self.mosi_data.is_none))
       => /\ self'.empty_result_count = self.empty_result_count + 1
          /\ self'.miso_data.is_none
          /\ self'.mosi_data.is_none
          /\ output' = NoFrame
          /\ ~raised'
    /\ self'.empty_result_count # self.empty_result_count
       => (self.transaction = 0 /\ self'.transaction = 0)

C10_BuffersSet == self.transaction > 0 => BurstOpen

C10_ResultWithoutBurst == [](C10_BuffersSet) /\ [][C10_Step]_vars

C10_Witness ==
    /\ self.empty_result_count = 2
    /\ self.transaction = 0
    /\ self.mosi_data.is_none

----------------------------------------------------------------------------
(* Properties of the classifier, under SpecClassify *)

\* the address width that follows from the EN4B / EX4B bursts classified so far
WidthByToggle == IF toggle = EN4B THEN 4 ELSE 3

\* the w bytes after the opcode, big-endian
BigEndian(b, w) ==
    IF w = 4 THEN b[2] * 16777216 + b[3] * 65536 + b[4] * 256 + b[5]
    ELSE b[2] * 65536 + b[3] * 256 + b[4]

DataClassified == classified.done /\ classified.frame_type = "data_command"

\* C1: the address width is 3 at first and 3 or 4 always: 4 exactly when the
\* last EN4B / EX4B burst classified was EN4B. A Data record's address is the
\* big-endian value of that many bytes after the opcode, printed with two hex
\* digits per byte; the width is the one in force when the burst is
\* classified, so it already applies to the burst after the 0xB7 / 0xE9 one.
C1_AddressWidth ==
    /\ self.address_bytes \in {3, 4}
    /\ self.address_bytes = WidthByToggle
    /\ self.address_format = 2 * WidthByToggle
    /\ DataClassified =>
          /\ classified.address_bytes = WidthByToggle
          /\ classified.our_frame.data.address =
                AddressFormat(2 * WidthByToggle,
                              BigEndian(classified.mosi, WidthByToggle))

C1_Witness ==
    /\ DataClassified
    /\ toggle = EN4B
    /\ classified.mosi = <<3, 1, 0, 1, 0>>
    /\ classified.our_frame.data.address = "01000100"

\* C2: the payload byte count of a Data record is the host-to-device length
\* minus (address width in force + 2 + adjustment), the adjustment being 1 for
\* 0x0b, 2 for 0xeb and 0 otherwise, and the end address is the start address
\* plus that count.
C2_PayloadLength ==
    DataClassified =>
        LET adjustment == IF classified.command = 11 THEN 1
                          ELSE IF classified.command = 235 THEN 2 ELSE 0
            num == Len(classified.mosi) - (WidthByToggle + 2 + adjustment)
        IN  /\ classified.our_frame.data.num_bytes = num
            /\ classified.our_frame.data.address_end =
                  AddressFormat(2 * WidthByToggle,
                                BigEndian(classified.mosi, WidthByToggle) + num)

\* C4: an ended burst that begins with a data opcode is an Error exactly when
\* it is shorter than 1 + address width; no other burst is an Error; an Error
\* is no Data record, and the call that reports it has already begun
\* assembling the next burst.
C4_Truncation ==
    classified.done =>
        /\ classified.command \in DOMAIN DATA_COMMANDS =>
              (classified.frame_type = "error"
                  <=> Len(classified.mosi) < 1 + WidthByToggle)
        /\ classified.frame_type = "error" =>
              /\ classified.command \in DOMAIN DATA_COMMANDS
              /\ classified.our_frame.type = "error"
              /\ classified.our_frame.data.command = classified.command
              /\ ~raised
              /\ BurstOpen
              /\ self.mosi_data.bytes = <<>>
              /\ self.clock_count = 1
              /\ self.address_bytes = classified.address_bytes

C4_Witness ==
    /\ classified.done
    /\ classified.frame_type = "error"
    /\ classified.mosi = <<3, 0, 1>>
    /\ self.transaction = 3

\* C5: a record is returned only if its category is the one the decode level
\* selects, and under "Everything" every classified record is returned.
C5_OutputLevel ==
    /\ output # NoFrame =>
          /\ settings.decode_level = "Only Data" => output.type = "data_command"
          /\ settings.decode_level = "Only Errors" => output.type = "error"
          /\ settings.decode_level = "Only Control" => output.type = "control_command"
    /\ (classified.done /\ settings.decode_level = "Everything") =>
          output = classified.our_frame

\* C6: a burst with a data opcode and at least 1 + address width bytes is a
\* Data record exactly when its address is not below a non-zero minimum and
\* not above a configured maximum (both ends pass); otherwise it yields no
\* record at all.
C6_AddressFilter ==
    (/\ classified.done
     /\ classified.command \in DOMAIN DATA_COMMANDS
     /\ Len(classified.mosi) >= 1 + WidthByToggle) =>
        LET address == BigEndian(classified.mosi, WidthByToggle)
            passes  == /\ (~Positive(settings.min_address)
                            \/ ~Below(address, settings.min_address))
                       /\ (~Truthy(settings.max_address)
                            \/ ~Exceeds(address, settings.max_address))
        IN  /\ classified.frame_type = "data_command" <=> passes
            /\ ~passes => /\ classified.frame_type = "None"
                          /\ classified.our_frame = NoFrame
                          /\ output = NoFrame

----------------------------------------------------------------------------
(* More properties of the lane assembler, under Spec *)

\* the edge index at which the sample of the last call was assembled
LastEdge == self.clock_count - 1

\* the last call flushed a byte in quad-lane phase
QuadFlush ==
    /\ sample.data # None
    /\ ChipSelect(sample.data) = 0
    /\ self.quad_start # None
    /\ LastEdge >= self.quad_start
    /\ LastEdge % 2 = 1

\* the byte pair the last call flushed
LastPair == frames[Len(frames)].data

\* C11: a byte flushed in quad-lane phase at an edge index above 15 + dummy
\* count is appended as device-to-host data (host-to-device entry 0), and one
\* flushed at an edge index up to 15 + dummy count as host-to-device data
\* (device-to-host entry 0).
C11_QuadDirection ==
    QuadFlush =>
        IF LastEdge > 15 + self.dummy
        THEN LastPair.mosi = <<0>>
        ELSE LastPair.miso = <<0>>

\* a decoder that holds nothing of earlier bursts but what a burst start hands
\* over: the continuous-mode flag with, when it is set, the inherited opcode,
\* its dummy count and the quad switch (the address width is in `settings`
\* and `self` alike and plays no part in assembling)
HandedOver(b) ==
    [NewSPIFlash(settings) EXCEPT
        !.continuous = b.continuous,
        !.command    = IF b.continuous THEN b.command ELSE None,
        !.dummy      = IF b.continuous THEN CONTINUE_COMMANDS[b.command] ELSE 0,
        !.quad_start = IF b.continuous THEN 8 ELSE None]

\* that decoder after the samples w[i..], one tick apart
RECURSIVE Alone(_, _, _)
Alone(s, w, i) ==
    IF i > Len(w) THEN s
    ELSE LET after == DecodeCall(s, settings, w[i], Period + i - 1).s
         IN  IF after.clock_count > 0 THEN Alone(after, w, i + 1) ELSE after

\* C12: the byte sequences accumulated for a burst are those its own samples
\* give on a decoder that carries only the continuous-mode flag (with the
\* inherited opcode and dummy count) over from earlier bursts.
C12_Independence ==
    (began.time # None /\ Len(wire) >= 1) =>
        LET alone == Alone(HandedOver(began), wire, 1)
        IN  /\ ~raised
            /\ self.mosi_data = alone.mosi_data
            /\ self.miso_data = alone.miso_data

\* C18: every value handed to the host-to-device or device-to-host sequence
\* is a byte in 0..255 (a single-lane flush holds 8 bits, a quad-lane flush two
\* nibbles), also in a burst that follows one which ended after an odd number
\* of quad-phase edges; so the sequences hold bytes only and no append fails.
C18_FlushedBytes ==
    /\ \A i \in 1..Len(frames) :
          frames[i].type = "result" =>
              /\ frames[i].data.mosi[1] \in 0..255
              /\ frames[i].data.miso[1] \in 0..255
    /\ ~raised
    /\ \A i \in 1..Len(self.mosi_data.bytes) : self.mosi_data.bytes[i] \in 0..255
    /\ \A i \in 1..Len(self.miso_data.bytes) : self.miso_data.bytes[i] \in 0..255

\* C15: the continuous-mode flag is written only by the call that flushes a
\* byte in quad phase at edge index 15 under a continuation opcode; it is then
\* true exactly when the upper nibble of the flushed byte is 0xA. Every other
\* call leaves it as it was, so a set flag outlives a burst that ends before
\* edge 15.
C15_Step ==
    LET edge15 == /\ ~Started(frames')
                  /\ ChipSelect(sample'.data) = 0
                  /\ ~SingleLane(self)
                  /\ self.clock_count = 15
                  /\ self.command \in DOMAIN CONTINUE_COMMANDS
        flushed == frames'[Len(frames')].data.mosi[1] + frames'[Len(frames')].data.miso[1]
    IN  IF edge15
        THEN self'.continuous = ((flushed \div 16) % 16 = 10)
        ELSE self'.continuous = self.continuous

C15_ContinuousFlag == [][C15_Step]_vars

C15_Witness ==
    /\ classified.done
    /\ classified.began.continuous
    /\ Len(classified.mosi) = 2
    /\ self.continuous
    /\ began.continuous

\* C16: a burst that starts with the continuous-mode flag clear starts from a
\* reset opcode, quad switch ("never"), dummy count, bit accumulators and
\* empty byte sequences, with the edge counter at 0 when its first sample is
\* assembled, in single-lane phase; one that starts with the flag set keeps
\* opcode, quad switch and dummy count and packs its first sample in
\* quad-lane phase.
C16_Step ==
    Started(frames') =>
        LET data == sample'.data
        IN  IF ~self.continuous
            THEN /\ self'.clock_count = 0 + 1
                 /\ self'.command = 0
                 /\ self'.quad_start = None
                 /\ self'.dummy = 0
                 /\ self'.mosi_out = data % 2
                 /\ self'.miso_in = (data \div 2) % 2
                 /\ self'.mosi_data = bytearray(<<>>)
                 /\ self'.miso_data = bytearray(<<>>)
                 /\ SingleLane(self')
            ELSE /\ self'.command = self.command
                 /\ self'.quad_start = self.quad_start
                 /\ self'.dummy = self.dummy
                 /\ ~SingleLane(self')
                 /\ self'.quad_data % 16 = data % 16
                 /\ self'.mosi_out = self.mosi_out
                 /\ self'.miso_in = self.miso_in

C16_BurstStart == [][C16_Step]_vars

C16_Witness ==
    /\ classified.done
    /\ classified.command = 107
    /\ ~classified.began.continuous
    /\ Len(classified.mosi) > 1
    /\ ~began.continuous
    /\ Len(wire) = 1
    /\ self.quad_start = None
    /\ self.dummy = 0

----------------------------------------------------------------------------
(* More properties of the calls, under SpecIdle *)

\* C17: a call whose sample has chip select deasserted changes only the
\* last-sample time and the gap threshold: it starts and ends no burst,
\* assembles nothing and returns nothing. A call whose sample has chip select
\* asserted advances the edge counter by exactly one, in either lane phase
\* (from 0, or from 8 in a continued burst, when the sample starts a burst).
C17_Step ==
    IF ChipSelect(sample'.data) = 1
    THEN /\ self' = [self EXCEPT !.last_time  = sample'.time,
                                 !.fastest_cs = self'.fastest_cs]
         /\ frames' = <<>>
         /\ ~classified'.done
         /\ output' = NoFrame
         /\ ~raised'
    ELSE self'.clock_count =
            1 + (IF Started(frames')
                 THEN (IF self.continuous THEN 8 ELSE 0)
                 ELSE self.clock_count)

C17_DeassertedSample == [][C17_Step]_vars

C17_Witness ==
    /\ sample.data = 32768
    /\ BurstOpen
    /\ ~SingleLane(self)
    /\ self.clock_count = 11
    /\ self.mosi_data.bytes = <<107, 0>>
    /\ self.last_time = sample.time

----------------------------------------------------------------------------
(* Properties of the burst boundary, under SpecGap *)

\* the call about to be made is the first one
FirstSample == sample.time = None

\* the gap of the sample of the next call, in nanoseconds
GapNanos == (sample'.time - sample.time) * NanosPerTick

\* C13: a sample starts a burst exactly when its chip select is asserted and
\* its gap exceeds the threshold as that sample has updated it, which for a
\* positive gap is the threshold held before the sample; a sample with chip
\* select deasserted never starts one, and the first sample starts one
\* whenever its chip select is asserted.
C13_Step ==
    LET starts   == Started(frames')
        asserted == ChipSelect(sample'.data) = 0
    IN  /\ starts <=> (asserted /\ (FirstSample \/ GapNanos > self'.fastest_cs))
        /\ (~FirstSample /\ GapNanos > 0) =>
              (starts <=> (asserted /\ GapNanos > self.fastest_cs))
        /\ ~asserted => ~starts
        /\ (FirstSample /\ asserted) => starts
        /\ self'.transaction = self.transaction + (IF starts THEN 1 ELSE 0)

C13_BurstStart == [][C13_Step]_vars

C13_Witness ==
    /\ self.fastest_cs = 4 * NanosPerTick
    /\ self.transaction = 2
    /\ began.time = Period + 1 + 4 + 5
    /\ sample.time = began.time
    /\ Len(wire) = 4
    /\ idle = 0

\* C14: the threshold after a call is min(4 * gap, threshold before), so it
\* never grows and never exceeds its initial value (the first sample, whose
\* gap is the threshold itself, leaves it as it is).
C14_Step ==
    /\ self'.fastest_cs <= self.fastest_cs
    /\ self'.fastest_cs = IF FirstSample THEN self.fastest_cs
                          ELSE Min(4 * GapNanos, self.fastest_cs)

C14_Bounded == self.fastest_cs \in 0..InitialThreshold

C14_ThresholdMonotone == [](C14_Bounded) /\ [][C14_Step]_vars

C14_Witness ==
    /\ self.fastest_cs = 4 * NanosPerTick
    /\ self.last_time >= Period + 1 + 5 + Period
    /\ self.transaction >= 2

----------------------------------------------------------------------------
(* More properties of the classifier, under SpecClassify and SpecLevels *)

\* C19: every Data record has a payload byte count of at least 0 and an end
\* address not below its start address.
C19_PayloadNotNegative ==
    DataClassified =>
        /\ classified.our_frame.data.num_bytes >= 0
        /\ \E n \in 0..Len(classified.mosi) :
              classified.our_frame.data.address_end =
                  AddressFormat(2 * WidthByToggle,
                                BigEndian(classified.mosi, WidthByToggle) + n)

\* C20: the decode level decides only whether the record is returned. From
\* any state, the call leaves a decoder configured with any other level in
\* the very same state (so two decoders that differ only in the level and are
\* fed the same stream agree after every call), and what is returned is the
\* record that "Everything" returns or nothing. In particular a 0xB7 / 0xE9
\* burst switches the address width also when its record is not returned.
C20_Step ==
    /\ \A level \in decode_levels :
          LET other == DecodeCall(self, [settings EXCEPT !.decode_level = level],
                                  sample'.data, sample'.time)
          IN  /\ other.s = self'
              /\ other.raised = raised'
              /\ other.frames = frames'
              /\ (level = "Everything" /\ output' # NoFrame) => output' = other.output
    /\ (classified'.done /\ classified'.command = EN4B) => self'.address_bytes = 4
    /\ (classified'.done /\ classified'.command = EX4B) => self'.address_bytes = 3

C20_LevelOnlyFilters == [][C20_Step]_vars

C20_Witness ==
    /\ settings.decode_level = "Only Data"
    /\ classified.done
    /\ classified.command = EN4B
    /\ classified.address_bytes = 3
    /\ output = NoFrame
    /\ self.address_bytes = 4

====
